---- MODULE Spec2Model ----
(***************************************************************************)
(* Model of the scheduling core of app.py (Time-Weighted Task Scheduler):  *)
(* days_until_deadline, compute_score, format_time and                     *)
(* schedule_tasks_for_day ("pack").                                        *)
(*                                                                         *)
(* Representation.                                                         *)
(*  - A Python str is a sequence of one-character strings, so that         *)
(*    splitting, parsing, formatting and lexicographic comparison are      *)
(*    computed and not assumed.                                            *)
(*  - A Python dict is a TLA+ record; a key the dict lacks is a field the  *)
(*    record lacks (tested with DOMAIN).                                   *)
(*  - None is the empty sequence (the code only tests deadlines for        *)
(*    truthiness, lines 34 and 61, where None and "" behave alike).        *)
(*  - A JSON value that may be a number or a text (impact) is tagged:      *)
(*    [num |-> n] or [str |-> s].                                          *)
(*  - A float score is the exact rational <<numerator, denominator>> with  *)
(*    a positive denominator; floating-point rounding is not modelled.     *)
(*  - hours is counted in units of 1/120 hour, so that hours * 60 is a     *)
(*    whole number of half minutes and int() has something to truncate.    *)
(***************************************************************************)
EXTENDS Integers, Sequences, FiniteSets, TLC

(***************************************************************************)
(* Bounds of the model.                                                    *)
(***************************************************************************)
MaxTasks == 3
MaxMinutes == 2
MaxHours == 6

(***************************************************************************)
(* Text.                                                                   *)
(***************************************************************************)
\* The characters of the model in code-point order.
Alphabet == <<" ", "+", "-", "0", "1", "2", "3", "4", "5", "6", "7", "8", "9",
              ":", "a", "b", "o", "s", "x">>

Ord(c) == CHOOSE i \in 1..Len(Alphabet) : Alphabet[i] = c

Digits == {"0", "1", "2", "3", "4", "5", "6", "7", "8", "9"}

DigitVal(c) == Ord(c) - Ord("0")

None == <<>>

\* Python's str < str: code-point lexicographic order, a proper prefix first.
RECURSIVE StrLess(_, _)
StrLess(a, b) ==
    IF b = <<>> THEN FALSE
    ELSE IF a = <<>> THEN TRUE
    ELSE IF Head(a) = Head(b) THEN StrLess(Tail(a), Tail(b))
    ELSE Ord(Head(a)) < Ord(Head(b))

\* str.split(sep) for a one-character separator: always at least one field.
RECURSIVE SplitOn(_, _)
SplitOn(s, sep) ==
    IF \A i \in 1..Len(s) : s[i] # sep THEN <<s>>
    ELSE LET k == CHOOSE i \in 1..Len(s) :
                     s[i] = sep /\ \A j \in 1..(i - 1) : s[j] # sep
         IN  <<SubSeq(s, 1, k - 1)>> \o SplitOn(SubSeq(s, k + 1, Len(s)), sep)

IsDigits(s) == Len(s) > 0 /\ \A i \in 1..Len(s) : s[i] \in Digits

RECURSIVE DecimalVal(_)
DecimalVal(s) ==
    IF s = <<>> THEN 0 ELSE 10 * DecimalVal(SubSeq(s, 1, Len(s) - 1)) + DigitVal(s[Len(s)])

RECURSIVE Strip(_)
Strip(s) ==
    IF s # <<>> /\ Head(s) = " " THEN Strip(Tail(s))
    ELSE IF s # <<>> /\ s[Len(s)] = " " THEN Strip(SubSeq(s, 1, Len(s) - 1))
    ELSE s

\* int(str): surrounding blanks, an optional sign, then decimal digits.
IntParses(s) ==
    LET t == Strip(s)
    IN  /\ t # <<>>
        /\ IF Head(t) \in {"+", "-"} THEN IsDigits(Tail(t)) ELSE IsDigits(t)

IntOf(s) ==
    LET t == Strip(s)
    IN  IF Head(t) = "-" THEN 0 - DecimalVal(Tail(t))
        ELSE IF Head(t) = "+" THEN DecimalVal(Tail(t))
        ELSE DecimalVal(t)

Max(a, b) == IF a >= b THEN a ELSE b

(***************************************************************************)
(* Calendar dates: datetime.strptime(s, "%Y-%m-%d").date() and the day     *)
(* difference of two dates.                                                *)
(***************************************************************************)
IsLeap(y) == y % 4 = 0 /\ (y % 100 # 0 \/ y % 400 = 0)

DaysInMonth(y, m) ==
    IF m = 2 THEN (IF IsLeap(y) THEN 29 ELSE 28)
    ELSE IF m \in {4, 6, 9, 11} THEN 30 ELSE 31

RECURSIVE DaysBeforeMonth(_, _)
DaysBeforeMonth(y, m) ==
    IF m = 1 THEN 0 ELSE DaysBeforeMonth(y, m - 1) + DaysInMonth(y, m - 1)

\* date.toordinal(): 1 for 0001-01-01.
Ordinal(d) ==
    LET y == d[1] - 1
    IN  y * 365 + (y \div 4) - (y \div 100) + (y \div 400)
          + DaysBeforeMonth(d[1], d[2]) + d[3]

\* The directive %m or %d: one or two digits, or (for %d) a blank and a digit.
FieldMatches(f, blankOk) ==
    \/ Len(f) = 1 /\ f[1] \in Digits \ {"0"}
    \/ Len(f) = 2 /\ f[1] \in Digits /\ f[2] \in Digits
    \/ blankOk /\ Len(f) = 2 /\ f[1] = " " /\ f[2] \in Digits \ {"0"}

FieldVal(f) == IF f[1] = " " THEN DigitVal(f[2]) ELSE DecimalVal(f)

\* strptime succeeds: the whole text matches %Y-%m-%d and names a real day.
DateParses(s) ==
    LET fs == SplitOn(s, "-")
    IN  /\ Len(fs) = 3
        /\ Len(fs[1]) = 4 /\ IsDigits(fs[1]) /\ DecimalVal(fs[1]) >= 1
        /\ FieldMatches(fs[2], FALSE) /\ FieldVal(fs[2]) \in 1..12
        /\ FieldMatches(fs[3], TRUE)
        /\ FieldVal(fs[3]) \in 1..DaysInMonth(DecimalVal(fs[1]), FieldVal(fs[2]))

DateOf(s) ==
    LET fs == SplitOn(s, "-")
    IN  <<DecimalVal(fs[1]), FieldVal(fs[2]), FieldVal(fs[3])>>

(***************************************************************************)
(* Inputs of a call.                                                       *)
(***************************************************************************)
Num(n) == [num |-> n]
Str(s) == [str |-> s]

\* Titles are distinct per position of the caller's list, so that a block
\* names the task it was made from.
Titles == <<<<"a">>, <<"b">>, <<"c">>, <<"d">>, <<"e">>>>

PartSuffix == <<" ", "(", "p", "a", "r", "t", ")">>

\* The sentinel of sort_key for a task with no deadline.
Sentinel == <<"9", "9", "9", "9", "-", "1", "2", "-", "3", "1">>

(***************************************************************************)
(* Scoring.                                                                *)
(***************************************************************************)
\* dict.get(key, default)
Get(t, key, default) == IF key \in DOMAIN t THEN t[key] ELSE default

\* days_until_deadline with a text that is no date counted as due today.
DaysUntilDeadlineLenient(deadline_str, today) ==
    IF deadline_str = <<>> THEN <<>>
    ELSE IF ~DateParses(deadline_str) THEN <<0>>
    ELSE <<Max(0, Ordinal(DateOf(deadline_str)) - Ordinal(today))>>

\* days_until_deadline without the clamp of line 40.
DaysUntilDeadlineSigned(deadline_str, today) ==
    IF deadline_str = <<>> THEN <<>>
    ELSE IF ~DateParses(deadline_str) THEN <<>>
    ELSE <<Ordinal(DateOf(deadline_str)) - Ordinal(today)>>

\* days_until_deadline: <<>> for None, else <<days>>.
DaysUntilDeadline(deadline_str, today) ==
    IF deadline_str = <<>> THEN <<>>
    ELSE IF ~DateParses(deadline_str) THEN <<>>
    ELSE <<Max(0, Ordinal(DateOf(deadline_str)) - Ordinal(today))>>

\* float(v) raises ValueError on a text that is no number; the model reads
\* the decimal integers among the texts.
FloatRaises(v) == "str" \in DOMAIN v /\ ~IntParses(v.str)

FloatOf(v) == IF "num" \in DOMAIN v THEN v.num ELSE IntOf(v.str)

\* The exception compute_score raises, "" for none: ValueError from float()
\* (line 44), ZeroDivisionError from a window of 0 (line 49).
ScoreError(task, max_window, today) ==
    IF FloatRaises(Get(task, "impact", Num(1))) THEN "ValueError"
    ELSE IF /\ DaysUntilDeadline(Get(task, "deadline", None), today) # <<>>
            /\ max_window = 0
         THEN "ZeroDivisionError"
    ELSE ""

\* Line 49 with the ramp upside down: urgency grows with the days left.
UrgencyInverted(days_left, max_window) ==
    IF days_left = <<>> THEN <<1, 1>>
    ELSE IF days_left[1] * max_window > 0
         THEN <<max_window + days_left[1], max_window>>
         ELSE <<1, 1>>

\* urgency as a rational with a positive denominator.
Urgency(days_left, max_window) ==
    IF days_left = <<>> THEN <<1, 1>>
    ELSE LET n == max_window - days_left[1]
             sgn == IF max_window < 0 THEN 0 - 1 ELSE 1
         IN  IF n * max_window > 0
             THEN <<sgn * (max_window + n), sgn * max_window>>
             ELSE <<1, 1>>

\* Line 50: (impact / minutes) * urgency.
ScoreValue(impact, minutes, urgency) == <<impact * urgency[1], minutes * urgency[2]>>

\* compute_score: (impact / minutes) * urgency.
ComputeScore(task, max_window, today) ==
    LET minutes == Max(1, Get(task, "minutes", 0))
        impact == FloatOf(Get(task, "impact", Num(1)))
        urgency == Urgency(DaysUntilDeadline(Get(task, "deadline", None), today),
                           max_window)
    IN  ScoreValue(impact, minutes, urgency)

RatLess(a, b) == a[1] * b[2] < b[1] * a[2]

(***************************************************************************)
(* Sorting: tasks.sort(key=sort_key), a stable sort on the key             *)
(* (-_score, deadline or sentinel, minutes).                               *)
(***************************************************************************)
DeadlineKey(t) ==
    IF Get(t, "deadline", None) = <<>> THEN Sentinel ELSE t.deadline

\* sort_key(a) < sort_key(b), as Python compares the two tuples.
SortKeyLess(a, b) ==
    IF RatLess(b._score, a._score) THEN TRUE
    ELSE IF RatLess(a._score, b._score) THEN FALSE
    ELSE IF StrLess(DeadlineKey(a), DeadlineKey(b)) THEN TRUE
    ELSE IF StrLess(DeadlineKey(b), DeadlineKey(a)) THEN FALSE
    ELSE a.minutes < b.minutes

\* sort_key raises KeyError on a task that has no "minutes".
SortKeyRaises(t) == "minutes" \notin DOMAIN t

\* x goes before the first element that is strictly greater: stable.
RECURSIVE InsertSorted(_, _)
InsertSorted(x, s) ==
    IF s = <<>> THEN <<x>>
    ELSE IF SortKeyLess(x, s[Len(s)]) THEN
        Append(InsertSorted(x, SubSeq(s, 1, Len(s) - 1)), s[Len(s)])
    ELSE Append(s, x)

RECURSIVE StableSort(_)
StableSort(s) ==
    IF s = <<>> THEN <<>>
    ELSE InsertSorted(s[Len(s)], StableSort(SubSeq(s, 1, Len(s) - 1)))

\* Lines 57-59: the copies of the caller's records, each with its _score.
Scored(ts, max_window, today) ==
    [i \in 1..Len(ts) |-> ts[i] @@ ("_score" :> ComputeScore(ts[i], max_window, today))]

\* Lines 58-59 stopped by an exception at record n + 1: the first n records
\* carry a score.
ScoredUpTo(ts, n, max_window, today) ==
    [i \in 1..Len(ts) |->
        IF i <= n THEN ts[i] @@ ("_score" :> ComputeScore(ts[i], max_window, today))
        ELSE ts[i]]

\* Line 57 without the copy: the name tasks stays bound to the caller's list,
\* which lines 58-63 then write to.
CallerSeesLocal(caller_list, local_list) == local_list

\* Line 57: the list and each record are copied, so what lines 58-63 do to
\* the local list does not reach the list the caller passed.
CallerSees(caller_list, local_list) == caller_list

(***************************************************************************)
(* Times of day.                                                           *)
(***************************************************************************)
\* int(hours * 60): truncation toward zero; hours counts 1/120 hour.
TotalMinutes(h) == IF h >= 0 THEN h \div 2 ELSE 0 - ((0 - h) \div 2)

\* time(hour=h, minute=m) raises ValueError outside 0..23 and 0..59.
TimeRaises(h, m) == h \notin 0..23 \/ m \notin 0..59

\* (datetime.combine(today, time(h, m)) + timedelta(minutes=delta)).time():
\* the date is dropped, so the time of day wraps at midnight. The result is
\* the minute of the day.
TimePlus(h, m, delta) == (h * 60 + m + delta) % 1440

DigitChar(n) == Alphabet[Ord("0") + n]

\* format_time: strftime("%H:%M") of a minute of the day.
FormatTime(t) ==
    <<DigitChar((t \div 60) \div 10), DigitChar((t \div 60) % 10), ":",
      DigitChar((t % 60) \div 10), DigitChar((t % 60) % 10)>>

(***************************************************************************)
(* State: one call of schedule_tasks_for_day.                              *)
(***************************************************************************)
VARIABLES
    in_tasks,          \* the caller's list (argument tasks)
    hours,             \* argument hours, in 1/120 hour
    start,             \* argument start
    allow_split,       \* argument allow_split
    urgency_window,    \* argument urgency_window
    today,             \* date.today()
    tasks,             \* the local list: scored copies, sorted
    total_minutes,
    start_hour,
    start_min,
    current_minutes,
    leftover_minutes,
    schedule,
    idx,               \* position of the for loop in tasks
    pc,                \* "score", "budget", "loop", "return", "returned", "raised"
    raised,            \* the exception that ended the call, "" for none
    result             \* the returned list

inputs == <<in_tasks, hours, start, allow_split, urgency_window, today>>

locals == <<tasks, total_minutes, start_hour, start_min, current_minutes,
            leftover_minutes, schedule, idx>>

pack_vars == <<in_tasks, hours, start, allow_split, urgency_window, today, tasks,
               total_minutes, start_hour, start_min, current_minutes,
               leftover_minutes, schedule, idx, pc, raised, result>>

(***************************************************************************)
(* State: one call of compute_score.                                       *)
(***************************************************************************)
VARIABLES
    sc_task,           \* argument task
    sc_window,         \* argument max_window
    sc_minutes,        \* minutes (line 43)
    sc_impact,         \* impact (line 44)
    sc_days_left,      \* days_left (line 45): <<>> for None, else <<days>>
    sc_urgency,        \* urgency (lines 46-49), a rational
    sc_score,          \* the returned score, a rational
    sc_raised,         \* the exception that ended the call, "" for none
    sc_pc              \* "idle", "minutes", "days", "urgency", "score", "returned", "raised"

score_vars == <<sc_task, sc_window, sc_minutes, sc_impact, sc_days_left,
                sc_urgency, sc_score, sc_raised, sc_pc>>

\* No call of compute_score of its own is under way.
ScoreIdle ==
    /\ sc_task = [title |-> <<>>]
    /\ sc_window = 7
    /\ sc_minutes = 0
    /\ sc_impact = 0
    /\ sc_days_left = <<>>
    /\ sc_urgency = <<1, 1>>
    /\ sc_score = <<0, 1>>
    /\ sc_raised = ""
    /\ sc_pc = "idle"

(***************************************************************************)
(* State: the task file and the requests that change it.                   *)
(***************************************************************************)
VARIABLES
    store,             \* data["tasks"] of tasks.json; the file may not exist yet
    clock,             \* datetime.now() in whole milliseconds
    reqs,              \* the requests under way, by thread
    last,              \* the request that finished last and what it found
    added,             \* the titles of the tasks whose add_task has finished
    removed            \* the records a finished remove_task has filtered out

store_vars == <<store, clock, reqs, last, added, removed>>

\* The millisecond the run starts at: ids of one and of two digits follow.
ClockStart == 9

\* Nothing stored, no request under way or finished.
StoreIdle ==
    /\ store = <<>>
    /\ clock = ClockStart
    /\ reqs = <<>>
    /\ last = [op |-> "none"]
    /\ added = {}
    /\ removed = {}

vars == <<pack_vars, score_vars, store_vars>>

(***************************************************************************)
(* The inputs the calls are drawn from.                                    *)
(***************************************************************************)
Text0905 == <<"9", ":", "5">>
Text2359 == <<"2", "3", ":", "5", "9">>
Text2400 == <<"2", "4", ":", "0", "0">>
Text0900NoColon == <<"0", "9", "0", "0">>

\* Starts: 09:05 unpadded, one minute before midnight, an hour out of
\* range, a text with no colon.
StartInputs == {Text0905, Text2359, Text2400, Text0900NoColon}

HoursInputs == (0 - 2)..MaxHours

TodayInput == <<2025, 1, 30>>

DateToday == <<"2", "0", "2", "5", "-", "0", "1", "-", "3", "0">>

\* All lists of at most n records of pool, the i-th titled Titles[i].
TaskLists(pool, n) ==
    UNION { { [i \in 1..k |-> f[i] @@ [title |-> Titles[i]]] : f \in [1..k -> pool] }
            : k \in 0..n }

\* Well-formed records: whole minutes (stored as entered, so also 0 and
\* negative) at impact 1 with no deadline; a long task of impact 3, which
\* sorts first; a long task due today, which ties with the short ones.
PackPool ==
    { [minutes |-> m, impact |-> Num(1), deadline |-> None] :
        m \in (0 - 1)..MaxMinutes }
    \cup { [minutes |-> MaxMinutes, impact |-> Num(3), deadline |-> None],
           [minutes |-> MaxMinutes, impact |-> Num(1), deadline |-> DateToday] }

DateMar10 == <<"2", "0", "2", "5", "-", "0", "3", "-", "1", "0">>
DateDec01 == <<"2", "0", "2", "5", "-", "1", "2", "-", "0", "1">>
DateMar9Unpadded == <<"2", "0", "2", "5", "-", "3", "-", "9">>
TextSoon == <<"s", "o", "o", "n">>

\* Records that tie on score (1 per minute) and differ in deadline or in
\* duration, and one of a higher score: deadlines beyond the window, one
\* written without zero padding, one that is no date, one due today.
SortPool ==
    { [minutes |-> 1, impact |-> Num(1), deadline |-> d] :
        d \in {None, DateMar10, DateDec01, DateMar9Unpadded, TextSoon} }
    \cup { [minutes |-> 2, impact |-> Num(2), deadline |-> d] :
             d \in {None, DateMar10} }
    \cup { [minutes |-> 2, impact |-> Num(1), deadline |-> DateToday],
           [minutes |-> 1, impact |-> Num(3), deadline |-> None] }

\* Anomalous records: no minutes, no impact, an impact that is no number,
\* minutes of 0 and below, a deadline that is no date; and a regular one.
AnomPool ==
    { [minutes |-> 1, impact |-> Num(1), deadline |-> None],
      [impact |-> Num(1), deadline |-> None],
      [minutes |-> 1, deadline |-> None],
      [minutes |-> 1, impact |-> Str(TextSoon), deadline |-> None],
      [minutes |-> 0, impact |-> Num(1), deadline |-> None],
      [minutes |-> 0 - 1, impact |-> Num(1), deadline |-> None],
      [minutes |-> 2, impact |-> Num(1), deadline |-> TextSoon] }

InitCall(lists, hs, starts, windows) ==
    /\ in_tasks \in lists
    /\ hours \in hs
    /\ start \in starts
    /\ allow_split \in BOOLEAN
    /\ urgency_window \in windows
    /\ today = TodayInput
    /\ tasks = <<>>
    /\ total_minutes = 0
    /\ start_hour = 0
    /\ start_min = 0
    /\ current_minutes = 0
    /\ leftover_minutes = 0
    /\ schedule = <<>>
    /\ idx = 0
    /\ pc = "score"
    /\ raised = ""
    /\ result = <<>>
    /\ ScoreIdle
    /\ StoreIdle

Init == InitCall(TaskLists(PackPool, MaxTasks), HoursInputs, StartInputs, {7})

\* Calls that differ in the order of the sort: a budget of one minute.
InitSort == InitCall(TaskLists(SortPool, MaxTasks), {2}, {Text0905}, {7})

\* Calls with a well-formed start over anomalous records.
InitAnom == InitCall(TaskLists(AnomPool, MaxTasks), {0, 2, 4}, {Text0905}, {7})

(***************************************************************************)
(* schedule_tasks_for_day, one action per step.                            *)
(***************************************************************************)
Raise(e) ==
    /\ pc' = "raised"
    /\ raised' = e
    /\ UNCHANGED result

\* Lines 57-63: copy, score, sort.
ScoreAndSort ==
    /\ pc = "score"
    /\ IF \E i \in 1..Len(in_tasks) :
              ScoreError(in_tasks[i], urgency_window, today) # ""
       THEN LET i == CHOOSE j \in 1..Len(in_tasks) :
                        /\ ScoreError(in_tasks[j], urgency_window, today) # ""
                        /\ \A k \in 1..(j - 1) :
                              ScoreError(in_tasks[k], urgency_window, today) = ""
            IN  /\ Raise(ScoreError(in_tasks[i], urgency_window, today))
                /\ in_tasks' = CallerSees(in_tasks,
                                   ScoredUpTo(in_tasks, i - 1, urgency_window, today))
                /\ UNCHANGED tasks
       ELSE IF \E i \in 1..Len(in_tasks) : SortKeyRaises(in_tasks[i])
       THEN /\ Raise("KeyError")
            /\ in_tasks' = CallerSees(in_tasks,
                               Scored(in_tasks, urgency_window, today))
            /\ UNCHANGED tasks
       ELSE /\ tasks' = StableSort(Scored(in_tasks, urgency_window, today))
            /\ in_tasks' = CallerSees(in_tasks, tasks')
            /\ pc' = "budget"
            /\ UNCHANGED <<raised, result>>
    /\ UNCHANGED <<hours, start, allow_split, urgency_window, today>>
    /\ UNCHANGED <<total_minutes, start_hour, start_min, current_minutes,
                   leftover_minutes, schedule, idx>>
    /\ UNCHANGED <<score_vars, store_vars>>

\* Line 66 raises ValueError: a field that int() rejects, or not two fields.
StartRaises(s) ==
    LET fs == SplitOn(s, ":")
    IN  \/ Len(fs) # 2
        \/ \E i \in 1..Len(fs) : ~IntParses(fs[i])

\* Lines 65-69.
BudgetAndStart ==
    /\ pc = "budget"
    /\ total_minutes' = TotalMinutes(hours)
    /\ IF StartRaises(start)
       THEN /\ Raise("ValueError")
            /\ UNCHANGED <<start_hour, start_min, current_minutes,
                           leftover_minutes, schedule, idx>>
       ELSE /\ start_hour' = IntOf(SplitOn(start, ":")[1])
            /\ start_min' = IntOf(SplitOn(start, ":")[2])
            /\ current_minutes' = 0
            /\ schedule' = <<>>
            /\ leftover_minutes' = TotalMinutes(hours)
            /\ idx' = 1
            /\ pc' = "loop"
            /\ UNCHANGED <<raised, result>>
    /\ UNCHANGED <<inputs, tasks>>
    /\ UNCHANGED <<score_vars, store_vars>>

\* Line 75 without its test: every task is taken to fit.
FitsAlways(duration, leftover) == TRUE

\* Line 75: the task fits the remaining budget.
Fits(duration, leftover) == duration <= leftover

\* Lines 76 and 91 without the minutes elapsed: every block starts at start.
StartTimeOfFirst(h, m, current) == TimePlus(h, m, 0)

\* Lines 76 and 91: the start of the next block, a minute of the day.
StartTimeOf(h, m, current) == TimePlus(h, m, current)

\* Lines 77 and 92: the end of a block that starts at start_time.
EndTimeOf(start_time, minutes) ==
    TimePlus(start_time \div 60, start_time % 60, minutes)

\* Line 90, one minute short.
ChunkShort(leftover) == leftover - 1

\* Line 90: the minutes of the partial block.
Chunk(leftover) == leftover

\* Line 102 left out: the budget is not used up by the partial block.
LeftoverKept(leftover) == leftover

\* Line 102: the budget left after the partial block.
LeftoverAfterSplit(leftover) == 0

\* Line 103 as a break: the loop stops at the first task that does not fit.
PcAfterSkipStop == "return"

\* Line 103: a task that does not fit and is not split is passed over and
\* the loop goes on.
PcAfterSkip == "loop"

\* Line 89 never true: a task that does not fit is passed over although
\* splitting was asked for.
MaySplitNever(allow, leftover) == FALSE

\* Line 89: a task that does not fit is split.
MaySplit(allow, leftover) == allow /\ leftover > 0

\* Lines 78-85 and 93-100 without the task's deadline.
BlockUndated(t, title, start_time, minutes) ==
    [title |-> title,
     start |-> FormatTime(start_time),
     end |-> FormatTime(EndTimeOf(start_time, minutes)),
     minutes |-> minutes,
     impact |-> t.impact,
     deadline |-> None]

\* Lines 78-85 and 93-100: the block appended for task t.
Block(t, title, start_time, minutes) ==
    [title |-> title,
     start |-> FormatTime(start_time),
     end |-> FormatTime(EndTimeOf(start_time, minutes)),
     minutes |-> minutes,
     impact |-> t.impact,
     deadline |-> Get(t, "deadline", None)]

\* The exception raised while a block for t is built, "" for none: time()
\* rejects the start (lines 76, 91), or t has no "impact" (lines 83, 98).
BlockError(t) ==
    IF TimeRaises(start_hour, start_min) THEN "ValueError"
    ELSE IF "impact" \notin DOMAIN t THEN "KeyError"
    ELSE ""

InLoop == pc = "loop" /\ idx <= Len(tasks)

\* Lines 72-73: no budget left, the loop is left.
LoopBreak ==
    /\ InLoop
    /\ leftover_minutes <= 0
    /\ pc' = "return"
    /\ UNCHANGED <<inputs, locals, raised, result>>
    /\ UNCHANGED <<score_vars, store_vars>>

\* Lines 74-87: the task fits and gets a full block.
PlaceFull ==
    /\ InLoop
    /\ leftover_minutes > 0
    /\ LET t == tasks[idx]
           duration == t.minutes
       IN  /\ Fits(duration, leftover_minutes)
           /\ IF BlockError(t) # ""
              THEN /\ Raise(BlockError(t))
                   /\ UNCHANGED <<schedule, current_minutes, leftover_minutes, idx>>
              ELSE /\ schedule' = Append(schedule,
                         Block(t, t.title,
                               StartTimeOf(start_hour, start_min, current_minutes),
                               duration))
                   /\ current_minutes' = current_minutes + duration
                   /\ leftover_minutes' = leftover_minutes - duration
                   /\ idx' = idx + 1
                   /\ UNCHANGED <<pc, raised, result>>
    /\ UNCHANGED <<inputs, tasks, total_minutes, start_hour, start_min>>
    /\ UNCHANGED <<score_vars, store_vars>>

\* Lines 88-102: the task does not fit and gets a partial block.
PlaceSplit ==
    /\ InLoop
    /\ leftover_minutes > 0
    /\ LET t == tasks[idx]
           duration == t.minutes
           chunk == Chunk(leftover_minutes)
       IN  /\ ~Fits(duration, leftover_minutes)
           /\ MaySplit(allow_split, leftover_minutes)
           /\ IF BlockError(t) # ""
              THEN /\ Raise(BlockError(t))
                   /\ UNCHANGED <<schedule, current_minutes, leftover_minutes, idx>>
              ELSE /\ schedule' = Append(schedule,
                         Block(t, t.title \o PartSuffix,
                               StartTimeOf(start_hour, start_min, current_minutes),
                               chunk))
                   /\ current_minutes' = current_minutes + chunk
                   /\ leftover_minutes' = LeftoverAfterSplit(leftover_minutes)
                   /\ idx' = idx + 1
                   /\ UNCHANGED <<pc, raised, result>>
    /\ UNCHANGED <<inputs, tasks, total_minutes, start_hour, start_min>>
    /\ UNCHANGED <<score_vars, store_vars>>

\* Lines 88-89, 103: the task does not fit and is not split.
SkipTask ==
    /\ InLoop
    /\ leftover_minutes > 0
    /\ ~Fits(tasks[idx].minutes, leftover_minutes)
    /\ ~MaySplit(allow_split, leftover_minutes)
    /\ idx' = idx + 1
    /\ pc' = PcAfterSkip
    /\ UNCHANGED <<inputs, tasks, total_minutes, start_hour, start_min,
                   current_minutes, leftover_minutes, schedule, raised, result>>
    /\ UNCHANGED <<score_vars, store_vars>>

\* Line 71: the list is exhausted.
LoopEnd ==
    /\ pc = "loop"
    /\ idx > Len(tasks)
    /\ pc' = "return"
    /\ UNCHANGED <<inputs, locals, raised, result>>
    /\ UNCHANGED <<score_vars, store_vars>>

\* Line 105.
Return ==
    /\ pc = "return"
    /\ result' = schedule
    /\ pc' = "returned"
    /\ UNCHANGED <<inputs, locals, raised>>
    /\ UNCHANGED <<score_vars, store_vars>>

Next ==
    \/ ScoreAndSort
    \/ BudgetAndStart
    \/ LoopBreak
    \/ PlaceFull
    \/ PlaceSplit
    \/ SkipTask
    \/ LoopEnd
    \/ Return

Spec == Init /\ [][Next]_vars

SpecSort == InitSort /\ [][Next]_vars

SpecAnom == InitAnom /\ [][Next]_vars

(***************************************************************************)
(* compute_score on its own, one action per step.                          *)
(***************************************************************************)
DateFeb29Past == <<"2", "0", "2", "0", "-", "0", "2", "-", "2", "9">>
DateYesterday == <<"2", "0", "2", "5", "-", "0", "1", "-", "2", "9">>
DateTomorrow == <<"2", "0", "2", "5", "-", "0", "1", "-", "3", "1">>
DateIn3Days == <<"2", "0", "2", "5", "-", "0", "2", "-", "0", "2">>
DateIn7Days == <<"2", "0", "2", "5", "-", "0", "2", "-", "0", "6">>
DateFeb30 == <<"2", "0", "2", "5", "-", "0", "2", "-", "3", "0">>

\* Deadlines that are dates: long past, yesterday, today, tomorrow, in 3 and
\* in 7 days, weeks ahead, and one written without zero padding.
DatedInputs ==
    {DateFeb29Past, DateYesterday, DateToday, DateTomorrow, DateIn3Days,
     DateIn7Days, DateMar10, DateMar9Unpadded}

\* Deadlines that are no dates: none, a word, a day that does not exist.
UndatedInputs == {None, TextSoon, DateFeb30}

WindowInputs == {1, 3, 7}

\* Records for compute_score: minutes absent, 0 and up, impact absent or a
\* number, every deadline or none at all.
ScorePool ==
    { [impact |-> Num(i), deadline |-> d] :
        i \in {2}, d \in DatedInputs \cup UndatedInputs }
    \cup { [minutes |-> m, impact |-> Num(i), deadline |-> d] :
             m \in 0..MaxMinutes, i \in {1, 3}, d \in DatedInputs \cup UndatedInputs }
    \cup { [minutes |-> m, deadline |-> d] :
             m \in {MaxMinutes}, d \in DatedInputs \cup UndatedInputs }
    \cup { [minutes |-> MaxMinutes, impact |-> Num(3)] }

PackIdle ==
    /\ in_tasks = <<>>
    /\ hours = 0
    /\ start = <<>>
    /\ allow_split = FALSE
    /\ urgency_window = 7
    /\ today = TodayInput
    /\ tasks = <<>>
    /\ total_minutes = 0
    /\ start_hour = 0
    /\ start_min = 0
    /\ current_minutes = 0
    /\ leftover_minutes = 0
    /\ schedule = <<>>
    /\ idx = 0
    /\ pc = "idle"
    /\ raised = ""
    /\ result = <<>>

InitScore ==
    /\ PackIdle
    /\ StoreIdle
    /\ sc_task \in ScorePool
    /\ sc_window \in WindowInputs \cup {0}
    /\ sc_minutes = 0
    /\ sc_impact = 0
    /\ sc_days_left = <<>>
    /\ sc_urgency = <<1, 1>>
    /\ sc_score = <<0, 1>>
    /\ sc_raised = ""
    /\ sc_pc = "minutes"

\* Lines 43-44: minutes and impact, coerced and defaulted.
ScoreCoerce ==
    /\ sc_pc = "minutes"
    /\ sc_minutes' = Max(1, Get(sc_task, "minutes", 0))
    /\ IF FloatRaises(Get(sc_task, "impact", Num(1)))
       THEN /\ sc_raised' = "ValueError"
            /\ sc_pc' = "raised"
            /\ UNCHANGED sc_impact
       ELSE /\ sc_impact' = FloatOf(Get(sc_task, "impact", Num(1)))
            /\ sc_pc' = "days"
            /\ UNCHANGED sc_raised
    /\ UNCHANGED <<sc_task, sc_window, sc_days_left, sc_urgency, sc_score>>
    /\ UNCHANGED <<pack_vars, store_vars>>

\* Line 45: days_left.
ScoreDaysLeft ==
    /\ sc_pc = "days"
    /\ sc_days_left' = DaysUntilDeadline(Get(sc_task, "deadline", None), today)
    /\ sc_pc' = "urgency"
    /\ UNCHANGED <<sc_task, sc_window, sc_minutes, sc_impact, sc_urgency,
                   sc_score, sc_raised>>
    /\ UNCHANGED <<pack_vars, store_vars>>

\* Lines 46-49: urgency.
ScoreUrgency ==
    /\ sc_pc = "urgency"
    /\ IF sc_days_left # <<>> /\ sc_window = 0
       THEN /\ sc_raised' = "ZeroDivisionError"
            /\ sc_pc' = "raised"
            /\ UNCHANGED sc_urgency
       ELSE /\ sc_urgency' = Urgency(sc_days_left, sc_window)
            /\ sc_pc' = "score"
            /\ UNCHANGED sc_raised
    /\ UNCHANGED <<sc_task, sc_window, sc_minutes, sc_impact, sc_days_left, sc_score>>
    /\ UNCHANGED <<pack_vars, store_vars>>

\* Lines 50-51.
ScoreReturn ==
    /\ sc_pc = "score"
    /\ sc_score' = ScoreValue(sc_impact, sc_minutes, sc_urgency)
    /\ sc_pc' = "returned"
    /\ UNCHANGED <<sc_task, sc_window, sc_minutes, sc_impact, sc_days_left,
                   sc_urgency, sc_raised>>
    /\ UNCHANGED <<pack_vars, store_vars>>

NextScore ==
    \/ ScoreCoerce
    \/ ScoreDaysLeft
    \/ ScoreUrgency
    \/ ScoreReturn

SpecScore == InitScore /\ [][NextScore]_vars

\* Calls of the packer on one or two tasks that differ in their deadline,
\* under each window.
UrgencyPool ==
    { [minutes |-> m, impact |-> Num(2), deadline |-> d] :
        m \in {1, 2}, d \in DatedInputs }

InitUrgency == InitCall(TaskLists(UrgencyPool, 2), {2}, {Text0905}, WindowInputs)

SpecUrgency == InitUrgency /\ [][Next]_vars

(***************************************************************************)
(* The task store: add_task and remove_task, one request at a time.        *)
(***************************************************************************)
MaxAdds == 3
MaxTicks == 1

\* str(n) of an integer.
RECURSIVE StrOfInt(_)
StrOfInt(n) ==
    IF n < 0 THEN <<"-">> \o StrOfInt(0 - n)
    ELSE IF n < 10 THEN <<DigitChar(n)>>
    ELSE StrOfInt(n \div 10) \o <<DigitChar(n % 10)>>

\* The titles of the add requests that have loaded the store and not saved.
TitlesUnderWay ==
    {reqs[th].form.title : th \in {x \in DOMAIN reqs : reqs[x].op = "add"}}

\* The forms posted to /add: a title not used before or a blank one, minutes
\* that are an integer or not, impact 1, no deadline.
AddForms ==
    { [title |-> t, minutes |-> m, impact |-> <<"1">>, deadline |-> <<>>] :
        t \in {Titles[Cardinality(added \cup TitlesUnderWay) + 1], <<" ">>},
        m \in {<<"2">>, <<"x">>} }

\* Lines 116-129: the form is turned down.
AddRejects(form) ==
    \/ Strip(form.title) = <<>>
    \/ Strip(form.minutes) = <<>>
    \/ Strip(form.impact) = <<>>
    \/ ~IntParses(Strip(form.minutes))
    \/ FloatRaises(Str(Strip(form.impact)))

\* Line 132: int(datetime.now().timestamp() * 1000).
NewId(loaded, now) == now

\* Lines 131-138: the record of the new task.
NewTask(loaded, form, now) ==
    [id |-> NewId(loaded, now),
     title |-> Strip(form.title),
     minutes |-> IntOf(Strip(form.minutes)),
     impact |-> Num(FloatOf(Str(Strip(form.impact)))),
     deadline |-> IF Strip(form.deadline) = <<>> THEN None ELSE Strip(form.deadline),
     notes |-> <<>>]

\* Line 139: the loaded list with the new task at its end.
AddResult(loaded, form, now) == Append(loaded, NewTask(loaded, form, now))

\* Line 148: str(t["id"]) != str(task_id).
Stays(t, task_id) == StrOfInt(t.id) # task_id

\* Line 148 as list.remove would do it: only the first task of the given id
\* is dropped.
RECURSIVE RemoveResultFirst(_, _)
RemoveResultFirst(loaded, task_id) ==
    IF loaded = <<>> THEN <<>>
    ELSE IF Stays(Head(loaded), task_id)
         THEN <<Head(loaded)>> \o RemoveResultFirst(Tail(loaded), task_id)
         ELSE Tail(loaded)

\* Line 148: the loaded list without the tasks of the given id.
RECURSIVE RemoveResult(_, _)
RemoveResult(loaded, task_id) ==
    IF loaded = <<>> THEN <<>>
    ELSE IF Stays(Head(loaded), task_id)
         THEN <<Head(loaded)>> \o RemoveResult(Tail(loaded), task_id)
         ELSE RemoveResult(Tail(loaded), task_id)

\* The records of the loaded list that line 148 drops.
Dropped(loaded, task_id) ==
    {loaded[i] : i \in {k \in 1..Len(loaded) : ~Stays(loaded[k], task_id)}}

\* The ids asked of /remove/<task_id>: every millisecond of the run as str()
\* writes it, one with a leading zero, and a word.
RemoveInputs ==
    {StrOfInt(n) : n \in ClockStart..(ClockStart + MaxTicks)}
    \cup {<<"0", "9">>, <<"x">>}

InitStore == PackIdle /\ ScoreIdle /\ StoreIdle

\* add_task, lines 114-142.
AddTask ==
    /\ \E form \in AddForms :
          IF AddRejects(form)
          THEN /\ last' = [op |-> "add", flash |-> "danger"]
               /\ UNCHANGED <<store, added>>
          ELSE /\ Cardinality(added) < MaxAdds
               /\ store' = AddResult(store, form, clock)
               /\ added' = added \cup {Strip(form.title)}
               /\ last' = [op |-> "add", flash |-> "success"]
    /\ UNCHANGED <<clock, reqs, removed>>
    /\ UNCHANGED <<pack_vars, score_vars>>

\* remove_task, lines 144-152.
RemoveTask ==
    /\ \E task_id \in RemoveInputs :
          /\ store' = RemoveResult(store, task_id)
          /\ removed' = removed \cup Dropped(store, task_id)
          /\ last' = [op |-> "remove", task_id |-> task_id, before |-> store,
                      flash |-> Len(store) - Len(store')]
    /\ UNCHANGED <<clock, reqs, added>>
    /\ UNCHANGED <<pack_vars, score_vars>>

\* A millisecond passes.
Tick ==
    /\ clock < ClockStart + MaxTicks
    /\ clock' = clock + 1
    /\ UNCHANGED <<store, reqs, last, added, removed>>
    /\ UNCHANGED <<pack_vars, score_vars>>

NextStore ==
    \/ AddTask
    \/ RemoveTask
    \/ Tick

SpecStore == InitStore /\ [][NextStore]_vars

(***************************************************************************)
(* The task store under the threaded server: requests interleave between   *)
(* load_tasks and save_tasks.  The file is read and written in one piece.  *)
(***************************************************************************)
MaxThreads == 2

Threads == 1..MaxThreads

\* The requests under way without the one of thread th.
Finished(th) ==
    IF DOMAIN reqs = {th} THEN <<>>
    ELSE [x \in DOMAIN reqs \ {th} |-> reqs[x]]

\* add_task, lines 114-130: the form is checked and the store is loaded.
AddLoad(th) ==
    /\ th \notin DOMAIN reqs
    /\ \E form \in AddForms :
          IF AddRejects(form)
          THEN /\ last' = [op |-> "add", flash |-> "danger"]
               /\ UNCHANGED reqs
          ELSE /\ Cardinality(added \cup TitlesUnderWay) < MaxAdds
               /\ reqs' = reqs @@ (th :> [op |-> "add", form |-> form,
                                          loaded |-> store])
               /\ UNCHANGED last
    /\ UNCHANGED <<store, clock, added, removed>>
    /\ UNCHANGED <<pack_vars, score_vars>>

\* add_task, lines 131-142: the task is appended to what was loaded and the
\* list is saved.
AddSave(th) ==
    /\ th \in DOMAIN reqs
    /\ reqs[th].op = "add"
    /\ store' = AddResult(reqs[th].loaded, reqs[th].form, clock)
    /\ added' = added \cup {Strip(reqs[th].form.title)}
    /\ last' = [op |-> "add", flash |-> "success"]
    /\ reqs' = Finished(th)
    /\ UNCHANGED <<clock, removed>>
    /\ UNCHANGED <<pack_vars, score_vars>>

\* remove_task, lines 144-147: the store is loaded.
RemoveLoad(th) ==
    /\ th \notin DOMAIN reqs
    /\ \E task_id \in RemoveInputs :
          reqs' = reqs @@ (th :> [op |-> "remove", task_id |-> task_id,
                                  loaded |-> store])
    /\ UNCHANGED <<store, clock, last, added, removed>>
    /\ UNCHANGED <<pack_vars, score_vars>>

\* remove_task, lines 148-152: what was loaded is filtered and saved.
RemoveSave(th) ==
    /\ th \in DOMAIN reqs
    /\ reqs[th].op = "remove"
    /\ store' = RemoveResult(reqs[th].loaded, reqs[th].task_id)
    /\ removed' = removed \cup Dropped(reqs[th].loaded, reqs[th].task_id)
    /\ last' = [op |-> "remove", task_id |-> reqs[th].task_id,
                before |-> reqs[th].loaded,
                flash |-> Len(reqs[th].loaded) - Len(store')]
    /\ reqs' = Finished(th)
    /\ UNCHANGED <<clock, added>>
    /\ UNCHANGED <<pack_vars, score_vars>>

NextConc ==
    \/ \E th \in Threads : AddLoad(th)
    \/ \E th \in Threads : AddSave(th)
    \/ \E th \in Threads : RemoveLoad(th)
    \/ \E th \in Threads : RemoveSave(th)
    \/ Tick

SpecConc == InitStore /\ [][NextConc]_vars

(***************************************************************************)
(* Properties.                                                             *)
(***************************************************************************)
Done == pc = "returned"

RECURSIVE SumMinutes(_)
SumMinutes(blocks) ==
    IF blocks = <<>> THEN 0 ELSE Head(blocks).minutes + SumMinutes(Tail(blocks))

\* The minute of the day an hour:minute text names.
TimeValue(text) ==
    LET fs == SplitOn(text, ":") IN IntOf(fs[1]) * 60 + IntOf(fs[2])

IsPartTitle(title) ==
    /\ Len(title) > Len(PartSuffix)
    /\ SubSeq(title, Len(title) - Len(PartSuffix) + 1, Len(title)) = PartSuffix

BaseTitle(title) ==
    IF IsPartTitle(title) THEN SubSeq(title, 1, Len(title) - Len(PartSuffix))
    ELSE title

\* The caller's record a block was made from (titles are distinct).
SourceOf(b) ==
    in_tasks[CHOOSE k \in 1..Len(in_tasks) : in_tasks[k].title = BaseTitle(b.title)]

IsPartial(b) == b.minutes < SourceOf(b).minutes

\* The budget left when the k-th task of the sorted list is reached, if
\* every task before it was placed in full.
RECURSIVE Remaining(_)
Remaining(k) ==
    IF k = 1 THEN total_minutes ELSE Remaining(k - 1) - tasks[k - 1].minutes

\* The budget left when the k-th task of the sorted list is reached: the
\* budget less the minutes of the blocks made from the tasks before it.
RECURSIVE LeftoverBefore(_)
LeftoverBefore(k) ==
    IF k = 1 THEN total_minutes
    ELSE LeftoverBefore(k - 1)
           - SumMinutes(SelectSeq(result,
                 LAMBDA b : BaseTitle(b.title) = tasks[k - 1].title))

\* Every task of the call has a duration of at least one minute, as the
\* data model asks.
AllPositive == \A k \in 1..Len(in_tasks) : in_tasks[k].minutes >= 1

\* C1 as stated: the minutes of the returned blocks sum to at most the
\* daily budget (hours * 60 minutes, hours counted in 1/120 hour), for any
\* budget.
C1_BudgetRespected_AnyBudget == Done => 2 * SumMinutes(result) <= hours

\* C1, amended: the minutes of the returned blocks sum to at most the daily
\* budget when the budget is not negative; for a negative budget the result
\* is empty.
C1_BudgetRespected ==
    Done => IF hours >= 0 THEN 2 * SumMinutes(result) <= hours
            ELSE result = <<>>

C1_Witness ==
    /\ Done
    /\ AllPositive
    /\ hours > 0
    /\ Len(result) >= 2
    /\ Len(result) < Len(tasks)

\* C2: in every result every block starts strictly before it ends, as
\* HH:MM times of day, also when the schedule runs up to or past midnight
\* (stated over tasks of at least one minute; a stored duration of 0 or
\* less breaks it as well).
C2_StartBeforeEnd ==
    (Done /\ AllPositive) =>
      \A i \in 1..Len(result) : StrLess(result[i].start, result[i].end)

\* C3: in every result the first block starts at start_time, each block
\* ends where the next one starts, and block i starts at start_time plus
\* the minutes of the blocks before it (times of day).
C3_Contiguous ==
    Done =>
      /\ result # <<>> => TimeValue(result[1].start) = TimeValue(start)
      /\ \A i \in 1..(Len(result) - 1) : result[i].end = result[i + 1].start
      /\ \A i \in 1..Len(result) :
            TimeValue(result[i].start) =
              (TimeValue(start) + SumMinutes(SubSeq(result, 1, i - 1))) % 1440

C3_Witness ==
    /\ Done
    /\ Len(result) >= 3
    /\ AllPositive
    /\ start # FormatTime(TimeValue(start))

\* C4: in every result at most one block has fewer minutes than its task,
\* that block is the last one and is the one titled " (part)"; without
\* allow_split there is none.
C4_OnePartialLast ==
    Done =>
      LET partial == {i \in 1..Len(result) : IsPartial(result[i])}
      IN  /\ Cardinality(partial) <= 1
          /\ \A i \in partial : i = Len(result)
          /\ \A i \in 1..Len(result) :
                IsPartTitle(result[i].title) <=> i \in partial
          /\ ~allow_split => partial = {}

C4_Witness ==
    /\ Done
    /\ AllPositive
    /\ Len(result) >= 2
    /\ Len(result) < Len(tasks)
    /\ IsPartial(result[Len(result)])

\* C5: without allow_split a task of the sorted list gets a block, a full
\* one, exactly when budget was left on reaching it and its duration was at
\* most that budget; the others are passed over, and no block is partial.
C5_SkipAndContinue ==
    (Done /\ ~allow_split) =>
      /\ \A k \in 1..Len(tasks) :
            (\E i \in 1..Len(result) :
                 /\ result[i].title = tasks[k].title
                 /\ result[i].minutes = tasks[k].minutes)
            <=> (LeftoverBefore(k) > 0 /\ tasks[k].minutes <= LeftoverBefore(k))
      /\ \A i \in 1..Len(result) :
            \E k \in 1..Len(tasks) : result[i].title = tasks[k].title

\* A task that did not fit was passed over and a later one was placed.
C5_Witness ==
    /\ Done
    /\ AllPositive
    /\ ~allow_split
    /\ \E j, k \in 1..Len(tasks) :
          /\ j < k
          /\ LeftoverBefore(j) > 0 /\ tasks[j].minutes > LeftoverBefore(j)
          /\ \E i \in 1..Len(result) : result[i].title = tasks[k].title

\* The first task of the sorted list that does not fit a positive remaining
\* budget, every task before it having fitted: a set of at most one index.
FirstNonFit ==
    {k \in 1..Len(tasks) :
        /\ Remaining(k) > 0 /\ tasks[k].minutes > Remaining(k)
        /\ \A j \in 1..(k - 1) :
              Remaining(j) > 0 /\ tasks[j].minutes <= Remaining(j)}

SplitShape(k) ==
    /\ Len(result) = k
    /\ result[k].title = tasks[k].title \o PartSuffix
    /\ result[k].minutes = Remaining(k)
    /\ \A i \in 1..(k - 1) :
          /\ result[i].title = tasks[i].title
          /\ result[i].minutes = tasks[i].minutes

\* C6 as stated: with allow_split the first task that does not fit gets one
\* partial block of the whole remaining budget, nothing follows it, and the
\* minutes of the result equal the daily budget (hours * 60) exactly.
C6_SplitFillsBudget_Exactly ==
    (Done /\ allow_split) =>
      \A k \in FirstNonFit : SplitShape(k) /\ 2 * SumMinutes(result) = hours

\* C6, amended: ... and the minutes of the result equal the daily budget
\* cut to whole minutes, int(hours * 60).
C6_SplitFillsBudget ==
    (Done /\ allow_split) =>
      \A k \in FirstNonFit : SplitShape(k) /\ SumMinutes(result) = total_minutes

C6_Witness ==
    /\ Done
    /\ AllPositive
    /\ allow_split
    /\ \E k \in FirstNonFit : k >= 2 /\ k < Len(tasks)

\* The deadline of t is a date strptime accepts.
HasDate(t) == t.deadline # None /\ DateParses(t.deadline)

\* a may come before b in the order C7 describes.
InClaimedOrder(a, b) ==
    \/ RatLess(b._score, a._score)
    \/ /\ ~RatLess(a._score, b._score)
       /\ IF HasDate(a) /\ HasDate(b)
          THEN \/ Ordinal(DateOf(a.deadline)) < Ordinal(DateOf(b.deadline))
               \/ /\ Ordinal(DateOf(a.deadline)) = Ordinal(DateOf(b.deadline))
                  /\ a.minutes <= b.minutes
          ELSE IF HasDate(a) THEN TRUE
          ELSE IF HasDate(b) THEN FALSE
          ELSE a.minutes <= b.minutes

\* C7: the packer takes the tasks by descending score; at equal score the
\* earlier deadline first and the tasks with no deadline after the dated
\* ones; at equal score and deadline the shorter first (stated over tasks
\* whose deadline is absent or a date).
C7_SortOrder ==
    pc \in {"budget", "loop", "return", "returned"} =>
      \A i, j \in 1..Len(tasks) :
        (/\ i < j
         /\ tasks[i].deadline = None \/ HasDate(tasks[i])
         /\ tasks[j].deadline = None \/ HasDate(tasks[j]))
        => InClaimedOrder(tasks[i], tasks[j])

\* C8: with a daily budget of zero or less the call returns an empty list
\* and raises nothing, whatever the task list holds.
C8_NoBudgetEmpty ==
    hours <= 0 => (raised = "" /\ (Done => result = <<>>))

\* start is no hour:minute time of day: line 66 rejects it, or its numbers
\* are outside 0..23 and 0..59.
InvalidStart(s) ==
    \/ StartRaises(s)
    \/ LET fs == SplitOn(s, ":") IN TimeRaises(IntOf(fs[1]), IntOf(fs[2]))

\* C9: a call whose start is no valid time of day ends in an invalid-input
\* error and returns nothing, whatever the tasks and the budget.
C9_BadStartFails ==
    InvalidStart(start) =>
      /\ ~Done
      /\ pc = "raised" => raised = "ValueError"

\* C10: with a well-formed start no task record makes the call fail.
C10_RecordsAbsorbed ==
    ~InvalidStart(start) => raised = ""

ScoreEnded == sc_pc \in {"returned", "raised"}

\* The record's deadline is absent, None, or a text that is no date.
Undated(t) == "deadline" \notin DOMAIN t \/ ~HasDate(t)

\* C11: a task whose deadline is absent or is no YYYY-MM-DD date is scored
\* without an error, with urgency exactly 1 and a score of exactly
\* impact / max(1, minutes).
C11_UndatedScore ==
    (ScoreEnded /\ Undated(sc_task)) =>
        /\ sc_pc = "returned"
        /\ sc_raised = ""
        /\ sc_urgency[1] = sc_urgency[2]
        /\ sc_score[1] * Max(1, Get(sc_task, "minutes", 0))
             = FloatOf(Get(sc_task, "impact", Num(1))) * sc_score[2]

\* A 2-minute task of impact 3 due on February 30 has been scored 3/2.
C11_Witness ==
    /\ sc_pc = "returned"
    /\ sc_task = [minutes |-> 2, impact |-> Num(3), deadline |-> DateFeb30]
    /\ sc_score[1] * 2 = 3 * sc_score[2]

\* The days from today to the record's date, negative for a date in the past.
DaysAhead(t) == Ordinal(DateOf(t.deadline)) - Ordinal(today)

\* C12: for a fixed task of positive impact and a fixed positive window, the
\* score does not decrease as the deadline comes closer: of two records that
\* differ only in their deadline, the one due no later scores at least as
\* much.
C12_ScoreMonotone ==
    \A i, j \in 1..Len(tasks) :
        (/\ urgency_window > 0
         /\ "_score" \in DOMAIN tasks[i] /\ "_score" \in DOMAIN tasks[j]
         /\ tasks[i].minutes = tasks[j].minutes
         /\ tasks[i].impact = tasks[j].impact
         /\ FloatOf(tasks[i].impact) > 0
         /\ HasDate(tasks[i]) /\ HasDate(tasks[j])
         /\ DaysAhead(tasks[i]) <= DaysAhead(tasks[j]))
        => ~RatLess(tasks[i]._score, tasks[j]._score)

\* Two records that differ only in their deadline, one due tomorrow and one
\* in 3 days, have been scored under a window of 7 and the nearer one scores
\* strictly more.
C12_Witness ==
    /\ Done
    /\ urgency_window = 7
    /\ \E i, j \in 1..Len(tasks) :
        /\ tasks[i].minutes = tasks[j].minutes
        /\ tasks[i].deadline = DateTomorrow
        /\ tasks[j].deadline = DateIn3Days
        /\ RatLess(tasks[j]._score, tasks[i]._score)

UrgencyKnown == sc_pc \in {"score", "returned"}

\* C13: for a task with a valid deadline and a positive window, days_left is
\* not negative and the urgency lies in [1, 2]; it is exactly 2 when the
\* deadline is today or in the past, and exactly 1 when the deadline is at
\* least the window away.
C13_UrgencyRange ==
    (UrgencyKnown /\ ~Undated(sc_task) /\ sc_window > 0) =>
        /\ sc_days_left # None
        /\ sc_days_left[1] >= 0
        /\ sc_urgency[2] > 0
        /\ sc_urgency[2] <= sc_urgency[1]
        /\ sc_urgency[1] <= 2 * sc_urgency[2]
        /\ DaysAhead(sc_task) <= 0 => sc_urgency[1] = 2 * sc_urgency[2]
        /\ DaysAhead(sc_task) >= sc_window => sc_urgency[1] = sc_urgency[2]

\* A task that was due on 2020-02-29 has been given urgency 2 under a window
\* of 7 days.
C13_Witness ==
    /\ sc_pc = "returned"
    /\ sc_window = 7
    /\ "deadline" \in DOMAIN sc_task
    /\ sc_task.deadline = DateFeb29Past
    /\ sc_days_left = <<0>>
    /\ sc_urgency[1] = 2 * sc_urgency[2]

SourcesOf(b) ==
    {k \in 1..Len(in_tasks) : in_tasks[k].title = BaseTitle(b.title)}

\* C16: every block comes from an input task of its own, carries that
\* task's impact and deadline, and has at most the task's minutes, exactly
\* the task's minutes unless it is a partial block.
C16_BlocksFromTasks ==
    /\ \A i \in 1..Len(schedule) :
          /\ SourcesOf(schedule[i]) # {}
          /\ \A k \in SourcesOf(schedule[i]) :
                /\ schedule[i].impact = in_tasks[k].impact
                /\ schedule[i].deadline = Get(in_tasks[k], "deadline", None)
                /\ schedule[i].minutes <= in_tasks[k].minutes
                /\ ~IsPartTitle(schedule[i].title)
                      => schedule[i].minutes = in_tasks[k].minutes
    /\ \A i, j \in 1..Len(schedule) :
          i # j => SourcesOf(schedule[i]) \cap SourcesOf(schedule[j]) = {}
    /\ Done => result = schedule

\* A call has returned a full block and a partial block of a task due
\* today, the partial one shorter than its task.
C16_Witness ==
    /\ Done
    /\ \E i, j \in 1..Len(result) :
          /\ ~IsPartTitle(result[i].title)
          /\ result[i].minutes = SourceOf(result[i]).minutes
          /\ IsPartTitle(result[j].title)
          /\ result[j].deadline = DateToday
          /\ result[j].minutes < SourceOf(result[j]).minutes

\* C17: with allow_split and a positive budget the blocks are made from the
\* first tasks of the sorted list, one block per task in that order, every
\* block but the last a full one: no task is passed over.
C17_SplitPrefix ==
    (allow_split /\ total_minutes > 0) =>
        /\ Len(schedule) <= Len(tasks)
        /\ \A i \in 1..Len(schedule) :
              /\ BaseTitle(schedule[i].title) = tasks[i].title
              /\ i < Len(schedule) =>
                    /\ ~IsPartTitle(schedule[i].title)
                    /\ schedule[i].minutes = tasks[i].minutes
        /\ Done => result = schedule

\* A split call has returned a full and a partial block while a third,
\* shorter task that would have fit in place of the split one got none.
C17_Witness ==
    /\ Done
    /\ allow_split
    /\ Len(tasks) = 3
    /\ Len(result) = 2
    /\ ~IsPartTitle(result[1].title)
    /\ IsPartTitle(result[2].title)
    /\ tasks[3].minutes > 0
    /\ tasks[3].minutes <= result[2].minutes

\* C15: no two stored tasks share an id, and no stored task has the id of a
\* task that was removed.
C15_UniqueIds ==
    /\ \A i, j \in 1..Len(store) : i # j => store[i].id # store[j].id
    /\ \A r \in removed : \A i \in 1..Len(store) : store[i].id # r.id

\* The text is the decimal numeral of the id.
NamesId(text, id) ==
    /\ IsDigits(text)
    /\ Len(text) = 1 \/ Head(text) # "0"
    /\ DecimalVal(text) = id

\* The records of a list that do not have the id the text names, in order.
RECURSIVE Others(_, _)
Others(list, text) ==
    IF list = <<>> THEN <<>>
    ELSE IF NamesId(text, Head(list).id) THEN Others(Tail(list), text)
    ELSE <<Head(list)>> \o Others(Tail(list), text)

\* C18: remove_task leaves in the store exactly the tasks whose id is not
\* the given one, unchanged and in their order; if no stored task has the
\* given id the list is left as it was.
C18_RemoveExact ==
    last.op = "remove" =>
        /\ store = Others(last.before, last.task_id)
        /\ (\A i \in 1..Len(last.before) :
               ~NamesId(last.task_id, last.before[i].id))
              => store = last.before
        /\ last.flash = Len(last.before) - Len(store)

\* From three stored tasks the two with id 10 have been removed and the one
\* with id 9 is left.
C18_Witness ==
    /\ last.op = "remove"
    /\ last.task_id = <<"1", "0">>
    /\ Len(last.before) = 3
    /\ Len(store) = 1
    /\ store[1] = last.before[1]
    /\ store[1].id = 9

NoRequest == DOMAIN reqs = {}

\* C19: once every request has finished, the store holds every task whose
\* add finished and that no remove dropped, and none of the records a
\* finished remove dropped.
C19_NoLostUpdate ==
    NoRequest =>
        /\ \A title \in added \ {r.title : r \in removed} :
              \E i \in 1..Len(store) : store[i].title = title
        /\ \A r \in removed : \A i \in 1..Len(store) : store[i] # r

====
